---- MODULE Spec2Model ----
(***************************************************************************)
(* Model of lending_thread_pool's ThreadPool (src/src/thread_pool/mod.rs). *)
(* One handle thread (Main) constructs the pool, calls enqueue, then join  *)
(* or drop; N worker threads run the worker loop.  The mutex, the two      *)
(* condition variables and every statement that touches them are modelled  *)
(* as separate steps.  Tasks are the increment tasks of the examples: a    *)
(* non-atomic read-then-write of the worker's own counter.                 *)
(***************************************************************************)
EXTENDS Integers, Sequences, FiniteSets, TLC

\* ---- bounds of the model -------------------------------------------------
MaxWorkers == 2     \* longest workers_data vector passed to the constructor
MaxCap == 2         \* largest explicit max_pending_tasks
MaxTasks == 3       \* number of enqueue calls the handle thread may make
MaxSpurious == 1    \* number of spurious condvar wakeups in one behaviour

\* ---- thread identities ---------------------------------------------------
Main == 0           \* the thread that owns the ThreadPool handle
NoThread == -1      \* the mutex is not held

VARIABLES
    pending_tasks,      \* ThreadPoolShared.pending_tasks: [tag, tasks]
    max_pending_tasks,  \* ThreadPoolShared.max_pending_tasks
    mutex,              \* thread holding the MutexGuard of pending_tasks
    workers_condvar,    \* threads blocked in workers_condvar.wait
    pool_condvar,       \* threads blocked in pool_condvar.wait
    workers,            \* ThreadPool.workers: the JoinHandles, in spawn order
    joining,            \* local `workers` of join_by_ref after mem::take
    worker_data,        \* the workers_data vector: one counter per element
    data_of,            \* data_of[w]: the element moved into worker w's closure
    wpc,                \* wpc[w]: position of worker w in its loop
    task,               \* task[w]: the task worker w holds (0: none)
    has_more,           \* has_more[w] of the DequeueResult worker w holds
    tmp,                \* tmp[w]: counter value read by the running task
    mpc,                \* position of the handle thread
    call,               \* public operation the handle thread is inside
    enqueue_calls,      \* enqueue calls made so far; the id of the newest task
    enqueued,           \* tasks appended to the queue so far
    returned,           \* enqueue calls that have returned
    dequeue_log,        \* task ids in the order they were popped
    runs,               \* runs[t]: completed executions of task t
    teardowns,          \* completed join_by_ref calls
    flips,              \* assignments of PoolQueue::Done
    spurious,           \* spurious wakeups so far
    ctor_args           \* <<workers_data.len(), max_pending_tasks>> the constructor was called with

shared == <<pending_tasks, max_pending_tasks, mutex, workers_condvar, pool_condvar>>
handle == <<workers, joining, mpc, call>>
wstate == <<worker_data, data_of, wpc, task, has_more, tmp>>
hist == <<enqueue_calls, enqueued, returned, dequeue_log, runs, teardowns, flips, spurious>>
vars == <<shared, handle, wstate, hist, ctor_args>>

Workers == DOMAIN wpc
Tasks == 1..MaxTasks

Todo(tasks) == [tag |-> "Todo", tasks |-> tasks]
Done == [tag |-> "Done", tasks |-> <<>>]
Unbuilt == [tag |-> "None", tasks |-> <<>>]

RECURSIVE SumTo(_, _)
SumTo(f, n) == IF n = 0 THEN 0 ELSE f[n] + SumTo(f, n - 1)

Init ==
    /\ pending_tasks = Unbuilt
    /\ max_pending_tasks = 0
    /\ mutex = NoThread
    /\ workers_condvar = {}
    /\ pool_condvar = {}
    /\ workers = <<>>
    /\ joining = <<>>
    /\ worker_data = <<>>
    /\ data_of = <<>>
    /\ wpc = <<>>
    /\ task = <<>>
    /\ has_more = <<>>
    /\ tmp = <<>>
    /\ mpc = "start"
    /\ call = "none"
    /\ enqueue_calls = 0
    /\ enqueued = 0
    /\ returned = 0
    /\ dequeue_log = <<>>
    /\ runs = [t \in Tasks |-> 0]
    /\ teardowns = 0
    /\ flips = 0
    /\ spurious = 0
    /\ ctor_args = <<>>

\* ---- construction --------------------------------------------------------
\* into_iter().enumerate().map(|(i, mut worker_data)| ..): the closure of
\* worker i takes ownership of element i of the vector.
SpawnDataShared(i) == 1
SpawnData(i) == i

\* assert_ne!(workers_data.len(), 0, ..); assert_ne!(max_pending_tasks, 0, ..)
ConstructionAssertsNoCapacity(n, cap) == n # 0
ConstructionAsserts(n, cap) == n # 0 /\ cap # 0

\* new_with_queue_size: the two assert_ne!, then the shared state, then one
\* thread per element; every thread starts at the top of its loop.
ConstructWithQueueSize(n, cap) ==
    /\ mpc = "start"
    /\ ctor_args' = <<n, cap>>
    /\ IF ~ConstructionAsserts(n, cap)
       THEN /\ mpc' = "panicked"
            /\ UNCHANGED <<shared, workers, joining, call, wstate>>
       ELSE /\ pending_tasks' = Todo(<<>>)
            /\ max_pending_tasks' = cap
            /\ workers' = [i \in 1..n |-> i]
            /\ worker_data' = [i \in 1..n |-> 0]
            /\ data_of' = [i \in 1..n |-> SpawnData(i)]
            /\ wpc' = [i \in 1..n |-> "lock"]
            /\ task' = [i \in 1..n |-> 0]
            /\ has_more' = [i \in 1..n |-> FALSE]
            /\ tmp' = [i \in 1..n |-> 0]
            /\ mpc' = "idle"
            /\ UNCHANGED <<mutex, workers_condvar, pool_condvar, joining, call>>
    /\ UNCHANGED hist

new_with_queue_size ==
    \E n \in 0..MaxWorkers, cap \in 0..MaxCap : ConstructWithQueueSize(n, cap)

\* new: max_pending = workers_data.len()
new ==
    \E n \in 0..MaxWorkers : ConstructWithQueueSize(n, n)

\* ---- PoolQueue::dequeue --------------------------------------------------
dequeuePopBack(self) ==
    IF self.tag = "Done"
    THEN [result |-> "Joined", self |-> self, task |-> 0, has_more |-> FALSE]
    ELSE IF self.tasks # <<>>
         THEN [result |-> "TaskAvailable",
               self |-> Todo(SubSeq(self.tasks, 1, Len(self.tasks) - 1)),
               task |-> self.tasks[Len(self.tasks)],
               has_more |-> Len(self.tasks) > 1]
         ELSE [result |-> "WaitingForTasks", self |-> self, task |-> 0,
               has_more |-> FALSE]

dequeueNoPop(self) ==
    IF self.tag = "Done"
    THEN [result |-> "Joined", self |-> self, task |-> 0, has_more |-> FALSE]
    ELSE IF self.tasks # <<>>
         THEN [result |-> "TaskAvailable", self |-> self,
               task |-> Head(self.tasks), has_more |-> Tail(self.tasks) # <<>>]
         ELSE [result |-> "WaitingForTasks", self |-> self, task |-> 0,
               has_more |-> FALSE]

dequeueReopens(self) ==
    IF self.tag = "Done"
    THEN [result |-> "Joined", self |-> Todo(<<>>), task |-> 0, has_more |-> FALSE]
    ELSE IF self.tasks # <<>>
         THEN [result |-> "TaskAvailable", self |-> Todo(Tail(self.tasks)),
               task |-> Head(self.tasks), has_more |-> Tail(self.tasks) # <<>>]
         ELSE [result |-> "WaitingForTasks", self |-> self, task |-> 0,
               has_more |-> FALSE]

dequeue(self) ==
    IF self.tag = "Done"
    THEN [result |-> "Joined", self |-> self, task |-> 0, has_more |-> FALSE]
    ELSE IF self.tasks # <<>>
         THEN [result |-> "TaskAvailable", self |-> Todo(Tail(self.tasks)),
               task |-> Head(self.tasks), has_more |-> Tail(self.tasks) # <<>>]
         ELSE [result |-> "WaitingForTasks", self |-> self, task |-> 0,
               has_more |-> FALSE]

\* ---- condition variables -------------------------------------------------
\* A thread leaving Condvar::wait still has to take the mutex again.
WokenMain(pc) ==
    IF pc = "enq_wait" THEN "enq_wake"
    ELSE IF pc = "join_wait" THEN "join_wake" ELSE pc

\* wpc after workers_condvar wakes the threads in `woken`
WakeWorkers(pcs, woken) ==
    [x \in DOMAIN pcs |-> IF x \in woken THEN "wake" ELSE pcs[x]]

\* ---- the worker loop -----------------------------------------------------
\* pending_tasks.lock().unwrap()
WorkerLock(w) ==
    /\ wpc[w] = "lock"
    /\ mutex = NoThread
    /\ mutex' = w
    /\ wpc' = [wpc EXCEPT ![w] = "dequeue"]
    /\ UNCHANGED <<ctor_args, pending_tasks, max_pending_tasks, workers_condvar, pool_condvar,
                   handle, worker_data, data_of, task, has_more, tmp, hist>>

\* DequeueResult::Joined => break None; the else branch breaks the outer
\* loop, the guard is dropped and the thread ends.
WorkerJoined(w) ==
    /\ wpc[w] = "dequeue"
    /\ mutex = w
    /\ dequeue(pending_tasks).result = "Joined"
    /\ pending_tasks' = dequeue(pending_tasks).self
    /\ mutex' = NoThread
    /\ wpc' = [wpc EXCEPT ![w] = "stopped"]
    /\ UNCHANGED <<ctor_args, max_pending_tasks, workers_condvar, pool_condvar,
                   handle, worker_data, data_of, task, has_more, tmp, hist>>

\* DequeueResult::WaitingForTasks => workers_condvar.wait(guard): the mutex
\* is released and the thread blocks, atomically.
WorkerWaitStops(w) ==
    /\ wpc[w] = "dequeue"
    /\ mutex = w
    /\ dequeue(pending_tasks).result = "WaitingForTasks"
    /\ mutex' = NoThread
    /\ wpc' = [wpc EXCEPT ![w] = "stopped"]
    /\ UNCHANGED <<ctor_args, pending_tasks, max_pending_tasks, workers_condvar, pool_condvar,
                   handle, worker_data, data_of, task, has_more, tmp, hist>>

WorkerWait(w) ==
    /\ wpc[w] = "dequeue"
    /\ mutex = w
    /\ dequeue(pending_tasks).result = "WaitingForTasks"
    /\ pending_tasks' = dequeue(pending_tasks).self
    /\ mutex' = NoThread
    /\ workers_condvar' = workers_condvar \cup {w}
    /\ wpc' = [wpc EXCEPT ![w] = "waiting"]
    /\ UNCHANGED <<ctor_args, max_pending_tasks, pool_condvar,
                   handle, worker_data, data_of, task, has_more, tmp, hist>>

\* DequeueResult::TaskAvailable => break Some(dequeued)
WorkerTake(w) ==
    /\ wpc[w] = "dequeue"
    /\ mutex = w
    /\ dequeue(pending_tasks).result = "TaskAvailable"
    /\ pending_tasks' = dequeue(pending_tasks).self
    /\ task' = [task EXCEPT ![w] = dequeue(pending_tasks).task]
    /\ has_more' = [has_more EXCEPT ![w] = dequeue(pending_tasks).has_more]
    /\ dequeue_log' = Append(dequeue_log, dequeue(pending_tasks).task)
    /\ wpc' = [wpc EXCEPT ![w] = "notify_pool"]
    /\ UNCHANGED <<ctor_args, max_pending_tasks, mutex, workers_condvar, pool_condvar,
                   handle, worker_data, data_of, tmp,
                   enqueue_calls, enqueued, returned, runs, teardowns, flips, spurious>>

\* workers_condvar.wait returns: the woken thread takes the mutex again
WorkerWaitReturnNoRecheck(w) ==
    /\ wpc[w] = "wake"
    /\ mutex = NoThread
    /\ mutex' = w
    /\ pending_tasks' = IF pending_tasks.tasks = <<>> THEN pending_tasks
                        ELSE Todo(Tail(pending_tasks.tasks))
    /\ task' = [task EXCEPT ![w] = IF pending_tasks.tasks = <<>> THEN 0
                                   ELSE Head(pending_tasks.tasks)]
    /\ wpc' = [wpc EXCEPT ![w] = "notify_pool"]
    /\ UNCHANGED <<ctor_args, max_pending_tasks, workers_condvar, pool_condvar,
                   handle, worker_data, data_of, has_more, tmp, hist>>

WorkerWaitReturn(w) ==
    /\ wpc[w] = "wake"
    /\ mutex = NoThread
    /\ mutex' = w
    /\ wpc' = [wpc EXCEPT ![w] = "dequeue"]
    /\ UNCHANGED <<ctor_args, pending_tasks, max_pending_tasks, workers_condvar, pool_condvar,
                   handle, worker_data, data_of, task, has_more, tmp, hist>>

\* Condvar::wait may return without any notification
WorkerSpuriousWakeup(w) ==
    /\ wpc[w] = "waiting"
    /\ w \in workers_condvar
    /\ spurious < MaxSpurious
    /\ spurious' = spurious + 1
    /\ workers_condvar' = workers_condvar \ {w}
    /\ wpc' = [wpc EXCEPT ![w] = "wake"]
    /\ UNCHANGED <<ctor_args, pending_tasks, max_pending_tasks, mutex, pool_condvar,
                   handle, worker_data, data_of, task, has_more, tmp,
                   enqueue_calls, enqueued, returned, dequeue_log, runs, teardowns, flips>>

\* pool_condvar.notify_all(), the guard still held
WorkerNotifyPoolSkipped(w) ==
    /\ wpc[w] = "notify_pool"
    /\ mutex = w
    /\ wpc' = [wpc EXCEPT ![w] = "drop_guard"]
    /\ UNCHANGED <<ctor_args, shared, handle, worker_data, data_of, task, has_more, tmp, hist>>

WorkerNotifyPool(w) ==
    /\ wpc[w] = "notify_pool"
    /\ mutex = w
    /\ pool_condvar' = {}
    /\ mpc' = IF Main \in pool_condvar THEN WokenMain(mpc) ELSE mpc
    /\ wpc' = [wpc EXCEPT ![w] = "drop_guard"]
    /\ UNCHANGED <<ctor_args, pending_tasks, max_pending_tasks, mutex, workers_condvar,
                   workers, joining, call,
                   worker_data, data_of, task, has_more, tmp, hist>>

\* drop(guard)
WorkerDropGuardSkipped(w) ==
    /\ wpc[w] = "drop_guard"
    /\ mutex = w
    /\ wpc' = [wpc EXCEPT ![w] = "notify_workers"]
    /\ UNCHANGED <<ctor_args, shared, handle, worker_data, data_of, task, has_more, tmp, hist>>

WorkerDropGuard(w) ==
    /\ wpc[w] = "drop_guard"
    /\ mutex = w
    /\ mutex' = NoThread
    /\ wpc' = [wpc EXCEPT ![w] = "notify_workers"]
    /\ UNCHANGED <<ctor_args, pending_tasks, max_pending_tasks, workers_condvar, pool_condvar,
                   handle, worker_data, data_of, task, has_more, tmp, hist>>

\* if has_more { workers_condvar.notify_all(); }
WorkerNotifyWorkers(w) ==
    /\ wpc[w] = "notify_workers"
    /\ IF has_more[w]
       THEN /\ workers_condvar' = {}
            /\ wpc' = [WakeWorkers(wpc, workers_condvar) EXCEPT ![w] = "call_task"]
       ELSE /\ wpc' = [wpc EXCEPT ![w] = "call_task"]
            /\ UNCHANGED workers_condvar
    /\ UNCHANGED <<ctor_args, pending_tasks, max_pending_tasks, mutex, pool_condvar,
                   handle, worker_data, data_of, task, has_more, tmp, hist>>

\* (task)(&mut worker_data): the task reads the counter it was lent ...
WorkerCallTask(w) ==
    /\ wpc[w] = "call_task"
    /\ tmp' = [tmp EXCEPT ![w] = worker_data[data_of[w]]]
    /\ wpc' = [wpc EXCEPT ![w] = "running"]
    /\ UNCHANGED <<ctor_args, shared, handle, worker_data, data_of, task, has_more, hist>>

\* ... and writes it back incremented; the task is consumed (FnOnce) and the
\* thread goes round the outer loop.
WorkerTaskReturns(w) ==
    /\ wpc[w] = "running"
    /\ worker_data' = [worker_data EXCEPT ![data_of[w]] = tmp[w] + 1]
    /\ runs' = [runs EXCEPT ![task[w]] = @ + 1]
    /\ task' = [task EXCEPT ![w] = 0]
    /\ has_more' = [has_more EXCEPT ![w] = FALSE]
    /\ tmp' = [tmp EXCEPT ![w] = 0]
    /\ wpc' = [wpc EXCEPT ![w] = "lock"]
    /\ UNCHANGED <<ctor_args, shared, handle, data_of,
                   enqueue_calls, enqueued, returned, dequeue_log, teardowns, flips, spurious>>

\* ---- ThreadPool::enqueue -------------------------------------------------
\* the handle thread calls pool.enqueue(task); tasks are numbered in call order
CallEnqueue ==
    /\ mpc = "idle"
    /\ enqueue_calls < MaxTasks
    /\ enqueue_calls' = enqueue_calls + 1
    /\ call' = "enqueue"
    /\ mpc' = "enq_lock"
    /\ UNCHANGED <<ctor_args, shared, workers, joining, wstate,
                   enqueued, returned, dequeue_log, runs, teardowns, flips, spurious>>

\* self.inner.pending_tasks.lock().unwrap()
EnqueueLock ==
    /\ mpc = "enq_lock"
    /\ mutex = NoThread
    /\ mutex' = Main
    /\ mpc' = "enq_check"
    /\ UNCHANGED <<ctor_args, pending_tasks, max_pending_tasks, workers_condvar, pool_condvar,
                   workers, joining, call, wstate, hist>>

\* tasks.len() >= self.inner.max_pending_tasks
QueueFullOffByOne(tasks, max) == Len(tasks) > max
QueueFull(tasks, max) == Len(tasks) >= max

\* tasks.push_back(Box::new(task))
push_front(tasks, t) == <<t>> \o tasks
push_back(tasks, t) == Append(tasks, t)

\* guard = self.inner.pool_condvar.wait(guard).unwrap()
EnqueueWait ==
    /\ pool_condvar' = pool_condvar \cup {Main}
    /\ mutex' = NoThread
    /\ mpc' = "enq_wait"
    /\ UNCHANGED <<ctor_args, pending_tasks, max_pending_tasks, workers_condvar,
                   workers, joining, call, wstate, hist>>

EnqueuePush ==
    /\ pending_tasks' = Todo(push_back(pending_tasks.tasks, enqueue_calls))
    /\ enqueued' = enqueued + 1
    /\ mpc' = "enq_notify"
    /\ UNCHANGED <<ctor_args, max_pending_tasks, mutex, workers_condvar, pool_condvar,
                   workers, joining, call, wstate,
                   enqueue_calls, returned, dequeue_log, runs, teardowns, flips, spurious>>

\* PoolQueue::Done => unreachable!(..): the thread panics
EnqueueUnreachable ==
    /\ mutex' = NoThread
    /\ mpc' = "panicked"
    /\ UNCHANGED <<ctor_args, pending_tasks, max_pending_tasks, workers_condvar, pool_condvar,
                   workers, joining, call, wstate, hist>>

\* match &mut *guard { .. } in the loop of enqueue, the guard held
EnqueueMatch ==
    /\ mpc = "enq_check"
    /\ mutex = Main
    /\ CASE pending_tasks.tag = "Done" -> EnqueueUnreachable
         [] pending_tasks.tag = "Todo"
              /\ QueueFull(pending_tasks.tasks, max_pending_tasks) -> EnqueueWait
         [] OTHER -> EnqueuePush

\* pool_condvar.wait returns: the guard is taken again
EnqueueWaitReturn ==
    /\ mpc = "enq_wake"
    /\ mutex = NoThread
    /\ mutex' = Main
    /\ mpc' = "enq_check"
    /\ UNCHANGED <<ctor_args, pending_tasks, max_pending_tasks, workers_condvar, pool_condvar,
                   workers, joining, call, wstate, hist>>

\* self.inner.workers_condvar.notify_one(); return (the guard is dropped)
EnqueueReturnsWithoutNotify ==
    /\ mpc = "enq_notify"
    /\ mutex = Main
    /\ mutex' = NoThread
    /\ returned' = returned + 1
    /\ call' = "none"
    /\ mpc' = "idle"
    /\ UNCHANGED <<ctor_args, pending_tasks, max_pending_tasks, workers_condvar, pool_condvar,
                   workers, joining, wstate,
                   enqueue_calls, enqueued, dequeue_log, runs, teardowns, flips, spurious>>

EnqueueNotifyReturn ==
    /\ mpc = "enq_notify"
    /\ mutex = Main
    /\ IF workers_condvar = {}
       THEN UNCHANGED <<workers_condvar, wpc>>
       ELSE \E w \in workers_condvar :
                /\ workers_condvar' = workers_condvar \ {w}
                /\ wpc' = WakeWorkers(wpc, {w})
    /\ mutex' = NoThread
    /\ returned' = returned + 1
    /\ call' = "none"
    /\ mpc' = "idle"
    /\ UNCHANGED <<ctor_args, pending_tasks, max_pending_tasks, pool_condvar,
                   workers, joining, worker_data, data_of, task, has_more, tmp,
                   enqueue_calls, enqueued, dequeue_log, runs, teardowns, flips, spurious>>

\* pool_condvar.wait of the handle thread may return without a notification
MainSpuriousWakeup ==
    /\ Main \in pool_condvar
    /\ spurious < MaxSpurious
    /\ spurious' = spurious + 1
    /\ pool_condvar' = pool_condvar \ {Main}
    /\ mpc' = WokenMain(mpc)
    /\ UNCHANGED <<ctor_args, pending_tasks, max_pending_tasks, mutex, workers_condvar,
                   workers, joining, call, wstate,
                   enqueue_calls, enqueued, returned, dequeue_log, runs, teardowns, flips>>

\* ---- ThreadPool::join, join_by_ref, Drop ---------------------------------
\* pool.join(): join(mut self) { self.join_by_ref(); }
CallJoin ==
    /\ mpc = "idle"
    /\ call' = "join"
    /\ mpc' = "join_lock"
    /\ UNCHANGED <<ctor_args, shared, workers, joining, wstate, hist>>

\* the handle goes out of scope without join: Drop::drop calls join_by_ref
CallDropForgets ==
    /\ mpc = "idle"
    /\ call' = "none"
    /\ mpc' = "done"
    /\ UNCHANGED <<ctor_args, shared, workers, joining, wstate, hist>>

CallDrop ==
    /\ mpc = "idle"
    /\ call' = "drop"
    /\ mpc' = "join_lock"
    /\ UNCHANGED <<ctor_args, shared, workers, joining, wstate, hist>>

\* let mut guard = self.inner.pending_tasks.lock().unwrap()
JoinLock ==
    /\ mpc = "join_lock"
    /\ mutex = NoThread
    /\ mutex' = Main
    /\ mpc' = "join_check"
    /\ UNCHANGED <<ctor_args, pending_tasks, max_pending_tasks, workers_condvar, pool_condvar,
                   workers, joining, call, wstate, hist>>

\* join_by_ref returns.  When it was called by join, join returns next and
\* its `self` is dropped, so Drop::drop calls join_by_ref once more.
\* When it was called by the drop that unwinding runs (a panic inside join),
\* the panic goes on and ends the handle thread.
ReturnFromJoinByRefKeepsHandle ==
    /\ teardowns' = teardowns + 1
    /\ call' = "none"
    /\ mpc' = "idle"

ReturnFromJoinByRef ==
    /\ teardowns' = teardowns + 1
    /\ IF call = "join"
       THEN call' = "drop" /\ mpc' = "join_lock"
       ELSE IF call = "unwind"
            THEN call' = "none" /\ mpc' = "panicked"
            ELSE call' = "none" /\ mpc' = "done"

\* PoolQueue::Done => return (already joined)
JoinAlreadyJoinedFlipsAgain ==
    /\ mpc = "join_check"
    /\ mutex = Main
    /\ pending_tasks.tag = "Done"
    /\ mpc' = "join_flip"
    /\ UNCHANGED <<ctor_args, shared, workers, joining, call, wstate, hist>>

JoinAlreadyJoined ==
    /\ mpc = "join_check"
    /\ mutex = Main
    /\ pending_tasks.tag = "Done"
    /\ mutex' = NoThread
    /\ ReturnFromJoinByRef
    /\ UNCHANGED <<ctor_args, pending_tasks, max_pending_tasks, workers_condvar, pool_condvar,
                   workers, joining, wstate,
                   enqueue_calls, enqueued, returned, dequeue_log, runs, flips, spurious>>

\* PoolQueue::Todo(tasks) if tasks.is_empty() => break
JoinIdle ==
    /\ mpc = "join_check"
    /\ mutex = Main
    /\ pending_tasks.tag = "Todo"
    /\ pending_tasks.tasks = <<>>
    /\ mpc' = "join_flip"
    /\ UNCHANGED <<ctor_args, shared, workers, joining, call, wstate, hist>>

\* PoolQueue::Todo(_) => guard = self.inner.pool_condvar.wait(guard).unwrap()
JoinBreaksEarly ==
    /\ mpc = "join_check"
    /\ mutex = Main
    /\ pending_tasks.tag = "Todo"
    /\ pending_tasks.tasks # <<>>
    /\ mpc' = "join_flip"
    /\ UNCHANGED <<ctor_args, shared, workers, joining, call, wstate, hist>>

JoinWait ==
    /\ mpc = "join_check"
    /\ mutex = Main
    /\ pending_tasks.tag = "Todo"
    /\ pending_tasks.tasks # <<>>
    /\ pool_condvar' = pool_condvar \cup {Main}
    /\ mutex' = NoThread
    /\ mpc' = "join_wait"
    /\ UNCHANGED <<ctor_args, pending_tasks, max_pending_tasks, workers_condvar,
                   workers, joining, call, wstate, hist>>

\* pool_condvar.wait returns: the guard is taken again
JoinWaitReturn ==
    /\ mpc = "join_wake"
    /\ mutex = NoThread
    /\ mutex' = Main
    /\ mpc' = "join_check"
    /\ UNCHANGED <<ctor_args, pending_tasks, max_pending_tasks, workers_condvar, pool_condvar,
                   workers, joining, call, wstate, hist>>

\* *guard = PoolQueue::Done
JoinFlip ==
    /\ mpc = "join_flip"
    /\ mutex = Main
    /\ pending_tasks' = Done
    /\ flips' = flips + 1
    /\ mpc' = "join_drop_guard"
    /\ UNCHANGED <<ctor_args, max_pending_tasks, mutex, workers_condvar, pool_condvar,
                   workers, joining, call, wstate,
                   enqueue_calls, enqueued, returned, dequeue_log, runs, teardowns, spurious>>

\* drop(guard)
JoinDropGuard ==
    /\ mpc = "join_drop_guard"
    /\ mutex = Main
    /\ mutex' = NoThread
    /\ mpc' = "join_notify"
    /\ UNCHANGED <<ctor_args, pending_tasks, max_pending_tasks, workers_condvar, pool_condvar,
                   workers, joining, call, wstate, hist>>

\* self.inner.workers_condvar.notify_all()
JoinNotifySkipped ==
    /\ mpc = "join_notify"
    /\ mpc' = "join_take"
    /\ UNCHANGED <<ctor_args, shared, workers, joining, call, wstate, hist>>

JoinNotify ==
    /\ mpc = "join_notify"
    /\ workers_condvar' = {}
    /\ wpc' = WakeWorkers(wpc, workers_condvar)
    /\ mpc' = "join_take"
    /\ UNCHANGED <<ctor_args, pending_tasks, max_pending_tasks, mutex, pool_condvar,
                   workers, joining, call,
                   worker_data, data_of, task, has_more, tmp, hist>>

\* let workers = mem::take(&mut self.workers)
JoinTake ==
    /\ mpc = "join_take"
    /\ joining' = workers
    /\ workers' = <<>>
    /\ mpc' = "join_threads"
    /\ UNCHANGED <<ctor_args, shared, call, wstate, hist>>

\* w.join().unwrap(): blocks until thread w has ended
JoinThreadNoWait ==
    /\ mpc = "join_threads"
    /\ joining # <<>>
    /\ joining' = Tail(joining)
    /\ UNCHANGED <<ctor_args, shared, workers, mpc, call, wstate, hist>>

JoinThread ==
    /\ mpc = "join_threads"
    /\ joining # <<>>
    /\ wpc[Head(joining)] = "stopped"
    /\ joining' = Tail(joining)
    /\ UNCHANGED <<ctor_args, shared, workers, mpc, call, wstate, hist>>

\* the for loop is over: join_by_ref returns
JoinReturn ==
    /\ mpc = "join_threads"
    /\ joining = <<>>
    /\ ReturnFromJoinByRef
    /\ UNCHANGED <<ctor_args, shared, workers, joining, wstate,
                   enqueue_calls, enqueued, returned, dequeue_log, runs, flips, spurious>>

\* ---- specifications ------------------------------------------------------
\* ---- task failure --------------------------------------------------------
\* (task)(&mut worker_data) panics: nothing catches it, the closure unwinds
\* and the thread ends.  worker_data and the task are dropped with it.
WorkerTaskPanics(w) ==
    /\ wpc[w] = "running"
    /\ wpc' = [wpc EXCEPT ![w] = "panicked"]
    /\ UNCHANGED <<ctor_args, shared, handle, worker_data, data_of, task, has_more, tmp, hist>>

\* w.join().unwrap() on a thread that panicked: join returns Err and unwrap
\* panics.  The JoinHandles not yet joined are dropped.  Inside join the
\* unwinding drops `self`, so Drop::drop runs join_by_ref; inside drop the
\* panic leaves drop and ends the handle thread.
JoinThreadIgnoresPanic ==
    /\ mpc = "join_threads"
    /\ joining # <<>>
    /\ wpc[Head(joining)] = "panicked"
    /\ joining' = Tail(joining)
    /\ UNCHANGED <<ctor_args, shared, workers, mpc, call, wstate, hist>>

JoinThreadPanics ==
    /\ mpc = "join_threads"
    /\ joining # <<>>
    /\ wpc[Head(joining)] = "panicked"
    /\ joining' = <<>>
    /\ IF call = "join"
       THEN call' = "unwind" /\ mpc' = "join_lock"
       ELSE call' = "none" /\ mpc' = "panicked"
    /\ UNCHANGED <<ctor_args, shared, workers, wstate, hist>>

WorkerStep(w) ==
    \/ WorkerLock(w)
    \/ WorkerJoined(w)
    \/ WorkerWait(w)
    \/ WorkerTake(w)
    \/ WorkerWaitReturn(w)
    \/ WorkerNotifyPool(w)
    \/ WorkerDropGuard(w)
    \/ WorkerNotifyWorkers(w)
    \/ WorkerCallTask(w)
    \/ WorkerTaskReturns(w)

\* the steps of the handle thread inside a call it has made
MainStep ==
    \/ EnqueueLock
    \/ EnqueueMatch
    \/ EnqueueWaitReturn
    \/ EnqueueNotifyReturn
    \/ JoinLock
    \/ JoinAlreadyJoined
    \/ JoinIdle
    \/ JoinWait
    \/ JoinWaitReturn
    \/ JoinFlip
    \/ JoinDropGuard
    \/ JoinNotify
    \/ JoinTake
    \/ JoinThread
    \/ JoinReturn

Next ==
    \/ new
    \/ new_with_queue_size
    \/ CallEnqueue
    \/ CallJoin
    \/ CallDrop
    \/ EnqueueLock
    \/ EnqueueMatch
    \/ EnqueueWaitReturn
    \/ EnqueueNotifyReturn
    \/ JoinLock
    \/ JoinAlreadyJoined
    \/ JoinIdle
    \/ JoinWait
    \/ JoinWaitReturn
    \/ JoinFlip
    \/ JoinDropGuard
    \/ JoinNotify
    \/ JoinTake
    \/ JoinThread
    \/ JoinReturn
    \/ MainSpuriousWakeup
    \/ \E w \in Workers : WorkerLock(w)
    \/ \E w \in Workers : WorkerJoined(w)
    \/ \E w \in Workers : WorkerWait(w)
    \/ \E w \in Workers : WorkerTake(w)
    \/ \E w \in Workers : WorkerWaitReturn(w)
    \/ \E w \in Workers : WorkerNotifyPool(w)
    \/ \E w \in Workers : WorkerDropGuard(w)
    \/ \E w \in Workers : WorkerNotifyWorkers(w)
    \/ \E w \in Workers : WorkerCallTask(w)
    \/ \E w \in Workers : WorkerTaskReturns(w)
    \/ \E w \in Workers : WorkerSpuriousWakeup(w)

Spec == Init /\ [][Next]_vars

\* Threads are scheduled fairly: a thread that can take a step eventually
\* takes one.  Spurious wakeups and the caller's decision to make a call
\* are not forced.
Fairness ==
    /\ WF_vars(MainStep)
    /\ \A w \in 1..MaxWorkers : WF_vars(w \in Workers /\ WorkerStep(w))

FairSpec == Spec /\ Fairness

\* the same program with tasks that may panic
PanicNext ==
    \/ Next
    \/ \E w \in Workers : WorkerTaskPanics(w)
    \/ JoinThreadPanics

PanicSpec == Init /\ [][PanicNext]_vars

\* A running task returns or panics; which of the two is not forced.
FairPanicSpec == PanicSpec /\ Fairness /\ WF_vars(JoinThreadPanics)

TypeOK ==
    /\ pending_tasks.tag \in {"None", "Todo", "Done"}
    /\ mutex \in {NoThread, Main} \cup Workers
    /\ workers_condvar \subseteq Workers
    /\ pool_condvar \subseteq {Main}
    /\ \A w \in Workers : (w \in workers_condvar) <=> (wpc[w] = "waiting")
    /\ (Main \in pool_condvar) <=> (mpc \in {"enq_wait", "join_wait"})

\* ---- vocabulary of the properties ----------------------------------------
Accepting == pending_tasks.tag = "Todo"
ShuttingDown == pending_tasks.tag = "Done"

\* worker w has popped a task that has not finished executing
Running(w) == wpc[w] \in {"notify_pool", "drop_guard", "notify_workers",
                          "call_task", "running"}

\* worker w is inside the task body, holding &mut to its WorkerData
Borrowing(w) == wpc[w] = "running"

Completed == SumTo(runs, MaxTasks)

InQueue(t) == Cardinality({i \in 1..Len(pending_tasks.tasks) : pending_tasks.tasks[i] = t})
HeldBy(t) == {w \in Workers : task[w] = t}

\* ---- C1 ------------------------------------------------------------------
\* C1: once join_by_ref has returned, the pool is ShuttingDown with no queue,
\* no worker is running a task (every worker thread has ended) and the number
\* of completed task executions equals the number of tasks appended by
\* enqueue.
C1_FullDrain ==
    teardowns >= 1 =>
        /\ ShuttingDown
        /\ pending_tasks.tasks = <<>>
        /\ \A w \in Workers : ~Running(w) /\ wpc[w] = "stopped"
        /\ Completed = enqueued
        /\ enqueued = returned

C1_Witness ==
    /\ teardowns >= 1
    /\ Len(wpc) = 2
    /\ enqueued = MaxTasks
    /\ Completed = MaxTasks

\* ---- C2 ------------------------------------------------------------------
\* C2: while the pool is Accepting the queue never holds more than
\* max_pending_tasks tasks.
C2_QueueBound ==
    Accepting => Len(pending_tasks.tasks) <= max_pending_tasks

C2_Witness ==
    /\ Accepting
    /\ max_pending_tasks = 2
    /\ Len(pending_tasks.tasks) = max_pending_tasks
    /\ mpc = "enq_wait"
    /\ \E w \in Workers : wpc[w] = "dequeue"

\* ---- C3 ------------------------------------------------------------------
\* C3: tasks are popped in the order their enqueue calls were made: the k-th
\* pop, by whichever worker, takes the task of the k-th enqueue call.
C3_GlobalFifo ==
    \A k \in 1..Len(dequeue_log) : dequeue_log[k] = k

C3_Witness ==
    /\ Len(dequeue_log) = 3
    /\ Len(wpc) = 2
    /\ task[2] = 2
    /\ task[1] = 3

\* ---- C4 ------------------------------------------------------------------
\* C4: every task appended by enqueue is, at any moment, in exactly one of
\* three places: once in the queue, held by exactly one worker, or executed
\* exactly once; tasks not yet appended are in none.  When teardown has
\* returned every appended task has been executed exactly once.
C4_ExactlyOnce ==
    /\ \A t \in Tasks :
           InQueue(t) + Cardinality(HeldBy(t)) + runs[t] = IF t <= enqueued THEN 1 ELSE 0
    /\ teardowns >= 1 => \A t \in 1..enqueued : runs[t] = 1

C4_Witness ==
    /\ mpc = "done"
    /\ enqueued = MaxTasks
    /\ \A t \in Tasks : runs[t] = 1
    /\ \A w \in Workers : worker_data[w] >= 1

\* ---- C5 ------------------------------------------------------------------
\* C5: no two workers own the same WorkerData element, so no two task
\* executions borrow the same element at once, every counter is written only
\* by its owner, and after teardown the counters sum to the number of tasks.
C5_ExclusiveLending ==
    /\ \A v, w \in Workers : v # w => data_of[v] # data_of[w]
    /\ \A v, w \in Workers : (v # w /\ Borrowing(v) /\ Borrowing(w)) => data_of[v] # data_of[w]
    /\ teardowns >= 1 => SumTo(worker_data, Len(worker_data)) = enqueued

C5_Witness ==
    /\ Len(wpc) = 2
    /\ max_pending_tasks = 2
    /\ Borrowing(1)
    /\ Borrowing(2)
    /\ worker_data[1] + worker_data[2] >= 1

\* ---- C6 ------------------------------------------------------------------
\* C6 as stated: with capacity 1, while a worker is still executing (stalled
\* on) the first task, the second enqueue call has not returned.
C6_Original ==
    (max_pending_tasks = 1 /\ \E w \in Workers : task[w] = 1 /\ Running(w))
        => returned < 2

\* C6 as amended: with capacity 1, the second enqueue call does not append
\* its task, and so does not return, until a worker has popped the first
\* task; the worker need not have finished it.
C6_SecondWaitsForDequeue ==
    max_pending_tasks = 1 =>
        /\ returned <= enqueued
        /\ (enqueued >= 2 => Len(dequeue_log) >= 1)

C6_Witness ==
    /\ max_pending_tasks = 1
    /\ returned = 2
    /\ \E w \in Workers : task[w] = 1 /\ Borrowing(w)

\* ---- C7 ------------------------------------------------------------------
\* C7: while the pool is Accepting with a full queue, an enqueue call that
\* has not appended its task yet neither appends nor returns, and its own
\* step leaves the queue as it is and blocks on pool_condvar; a task is
\* appended only at the tail and only when the queue is shorter than
\* max_pending_tasks; enqueue returns only when the task of the call has
\* been appended.
C7_Step ==
    /\ (Accepting /\ Len(pending_tasks.tasks) = max_pending_tasks
          /\ call = "enqueue" /\ enqueued < enqueue_calls)
           => (enqueued' = enqueued /\ returned' = returned /\ call' = "enqueue"
               /\ (mpc = "enq_check" /\ mpc' # mpc =>
                       mpc' = "enq_wait" /\ pending_tasks' = pending_tasks))
    /\ enqueued' # enqueued
           => /\ Accepting
              /\ Len(pending_tasks.tasks) < max_pending_tasks
              /\ pending_tasks'.tasks = Append(pending_tasks.tasks, enqueue_calls)
    /\ returned' # returned
           => (enqueued = enqueue_calls /\ returned' = enqueue_calls)

\* C7: every step of every behaviour is a C7_Step.
C7_Backpressure == [][C7_Step]_vars

\* the blocked enqueue has left pool_condvar.wait while the queue is still
\* full: it has to block again
C7_Witness ==
    /\ mpc = "enq_wake"
    /\ Accepting
    /\ max_pending_tasks = 2
    /\ Len(pending_tasks.tasks) = 2

\* ---- C8 ------------------------------------------------------------------
\* an enqueue call blocked on pool_condvar has a full queue in front of it,
\* or a worker that has popped a task and is about to notify pool_condvar
ProducerWakeupPending ==
    (Main \in pool_condvar /\ call = "enqueue") =>
        \/ Len(pending_tasks.tasks) >= max_pending_tasks
        \/ \E w \in Workers : wpc[w] = "notify_pool"

\* C8: no wakeup of a blocked enqueue is lost, and under fair scheduling
\* every enqueue call returns, whether or not it found the queue full.
C8_EnqueueReturns ==
    /\ []ProducerWakeupPending
    /\ \A k \in Tasks : (call = "enqueue" /\ enqueue_calls = k) ~> (returned >= k)

\* the blocked producer has been woken by a worker's notify_all
C8_Witness ==
    /\ mpc = "enq_wake"
    /\ spurious = 0
    /\ call = "enqueue"

\* ---- C9 ------------------------------------------------------------------
\* C9: under fair scheduling join, and drop, return: the pool becomes
\* ShuttingDown and every worker stops.
C9_JoinReturns ==
    (call \in {"join", "drop"}) ~>
        (mpc = "done" /\ ShuttingDown /\ \A w \in Workers : wpc[w] = "stopped")

\* join is about to wake the workers: one waits for a task, one runs a task
C9_Witness ==
    /\ mpc = "join_notify"
    /\ \E w \in Workers : wpc[w] = "waiting"
    /\ \E w \in Workers : wpc[w] = "running"

\* ---- C10 -----------------------------------------------------------------
\* C10: PoolQueue::Done is assigned at most once and no step takes the pool
\* from ShuttingDown back to Accepting.
C10_ShutdownTerminal ==
    /\ [](flips <= 1)
    /\ [][ShuttingDown => ShuttingDown']_vars

\* after the flip one worker has stopped and another holds the guard, about
\* to call dequeue on Done
C10_Witness ==
    /\ ShuttingDown
    /\ flips = 1
    /\ \E w \in Workers : wpc[w] = "stopped"
    /\ \E w \in Workers : wpc[w] = "dequeue" /\ mutex = w

\* ---- C11 -----------------------------------------------------------------
\* while join_by_ref runs again after it has completed, the handle thread is
\* only ever taking the guard or looking at Done: the mutex is free for it,
\* every worker has ended, and no JoinHandle is left to join
SecondTeardown ==
    (teardowns >= 1 /\ mpc # "done") =>
        /\ call = "drop"
        /\ mpc \in {"join_lock", "join_check"}
        /\ ShuttingDown
        /\ mutex = IF mpc = "join_check" THEN Main ELSE NoThread
        /\ Main \notin pool_condvar
        /\ workers = <<>>
        /\ joining = <<>>
        /\ \A w \in Workers : wpc[w] = "stopped"

\* C11: a teardown that runs after a completed teardown never blocks, joins
\* no thread, and changes neither the pool state nor any worker; it returns.
C11_TeardownIdempotent ==
    /\ []SecondTeardown
    /\ [](teardowns <= 2 /\ flips <= 1)
    /\ [][teardowns >= 1 =>
             /\ pending_tasks' = pending_tasks
             /\ flips' = flips
             /\ workers' = workers
             /\ joining' = joining
             /\ wstate' = wstate]_vars

\* join has returned and the drop of its `self` has run join_by_ref again
C11_Witness ==
    /\ teardowns = 2
    /\ mpc = "done"
    /\ flips = 1
    /\ enqueued = MaxTasks

\* ---- C12 -----------------------------------------------------------------
\* what can be observed of the pool once the handle is gone
Outcome ==
    [state |-> pending_tasks,
     mutex |-> mutex,
     waiting |-> workers_condvar \cup pool_condvar,
     handles |-> workers \o joining,
     threads |-> {wpc[w] : w \in Workers},
     executed |-> runs,
     returned |-> returned]

\* the outcome of explicit join after k enqueue calls
JoinOutcome(k) ==
    [state |-> Done,
     mutex |-> NoThread,
     waiting |-> {},
     handles |-> <<>>,
     threads |-> {"stopped"},
     executed |-> [t \in Tasks |-> IF t <= k THEN 1 ELSE 0],
     returned |-> k]

\* C12: when the handle is gone, by drop alone (one teardown) or by join (two),
\* a teardown has run and the outcome is the one of join for the enqueue
\* calls made: all tasks executed once, ShuttingDown, every worker stopped.
\* That outcome is in place as soon as the first join_by_ref has returned
\* (the second one of join only takes and releases the guard).
C12_DropEqualsJoin ==
    /\ mpc = "done" => (teardowns \in {1, 2} /\ Outcome = JoinOutcome(enqueue_calls))
    /\ teardowns >= 1 =>
           [Outcome EXCEPT !.mutex = NoThread] = JoinOutcome(enqueue_calls)

\* the handle was dropped without join, after MaxTasks enqueue calls
C12_Witness ==
    /\ mpc = "done"
    /\ teardowns = 1
    /\ enqueue_calls = MaxTasks
    /\ Len(wpc) = 2

\* ---- C13 -----------------------------------------------------------------
\* C13: a constructor call with an empty vector or with capacity 0 has
\* panicked, with no shared state and no thread created; any other call has
\* built the pool with that capacity and one worker, owning its own element,
\* per element of the vector.
C13_ConstructionErrors ==
    /\ (ctor_args = <<>>) <=> (mpc = "start")
    /\ ctor_args # <<>> =>
         IF ctor_args[1] = 0 \/ ctor_args[2] = 0
         THEN /\ mpc = "panicked"
              /\ pending_tasks = Unbuilt
              /\ max_pending_tasks = 0
              /\ mutex = NoThread
              /\ workers = <<>>
              /\ wpc = <<>>
              /\ worker_data = <<>>
         ELSE /\ mpc # "panicked"
              /\ pending_tasks.tag \in {"Todo", "Done"}
              /\ max_pending_tasks = ctor_args[2]
              /\ Len(wpc) = ctor_args[1]
              /\ Len(worker_data) = ctor_args[1]
              /\ data_of = [i \in 1..ctor_args[1] |-> i]
              /\ (mpc = "idle" => workers = [i \in 1..ctor_args[1] |-> i])

\* new_with_queue_size was given two elements and capacity 0
C13_Witness ==
    /\ ctor_args = <<2, 0>>
    /\ mpc = "panicked"

\* ---- C14 -----------------------------------------------------------------
Dead(w) == wpc[w] = "panicked"
SomeWorkerDead == \E w \in Workers : Dead(w)
AllWorkersDead == Workers # {} /\ \A w \in Workers : Dead(w)

\* teardown waits for a queue that no thread is left to drain
JoinBlockedForever ==
    /\ call \in {"join", "drop"}
    /\ mpc \in {"join_lock", "join_check", "join_wait", "join_wake"}
    /\ Accepting
    /\ pending_tasks.tasks # <<>>
    /\ AllWorkersDead

\* C14: a worker whose task panicked stays dead; with a dead worker the
\* handle thread never reaches the normal end of join or drop; a teardown
\* called on such a pool ends in the panic of w.join().unwrap() or blocks
\* forever on a queue no live worker will drain, and that block is permanent.
C14_TaskFailureBoundary ==
    /\ [][\A w \in Workers : Dead(w) => (w \in DOMAIN wpc' /\ wpc'[w] = "panicked")]_vars
    /\ [](SomeWorkerDead => mpc # "done")
    /\ [][JoinBlockedForever => JoinBlockedForever']_vars
    /\ (SomeWorkerDead /\ call \in {"join", "drop"})
           ~> (mpc = "panicked" \/ JoinBlockedForever)

\* join met the dead worker after a live one had stopped; the drop run by the
\* unwinding has returned and the handle thread has panicked
C14_Witness ==
    /\ mpc = "panicked"
    /\ teardowns = 1
    /\ ShuttingDown
    /\ \E w \in Workers : Dead(w)
    /\ \E w \in Workers : wpc[w] = "stopped"

\* ---- C15 -----------------------------------------------------------------
\* C15: an enqueue call, from its first lock to its return and also while it
\* is blocked on a full queue, only ever has PoolQueue::Todo in front of it:
\* the unreachable! arm is never taken, so an enqueue call never panics.
C15_EnqueueNeverSeesDone ==
    call = "enqueue" =>
        /\ Accepting
        /\ mpc \in {"enq_lock", "enq_check", "enq_wait", "enq_wake", "enq_notify"}

\* the last enqueue call, woken from a full queue, matches on the guard
C15_Witness ==
    /\ call = "enqueue"
    /\ mpc = "enq_check"
    /\ enqueue_calls = MaxTasks
    /\ Len(dequeue_log) = 1
    /\ max_pending_tasks = 2
    /\ Len(pending_tasks.tasks) = 1

\* ---- C16 -----------------------------------------------------------------
\* worker w has dropped its guard and is calling, or is inside, the task
InUserCode(w) == wpc[w] \in {"notify_workers", "call_task", "running"}

\* a step that changes the queue or the Todo/Done state of a built pool is
\* taken by the thread that holds the mutex, which it still holds afterwards
MutationUnderMutex ==
    (pending_tasks' # pending_tasks /\ pending_tasks # Unbuilt) =>
        /\ mutex' = mutex
        /\ \/ mutex = Main /\ mpc \in {"enq_check", "join_flip"} /\ mpc' # mpc
           \/ \E w \in Workers : mutex = w /\ wpc[w] = "dequeue" /\ wpc'[w] = "notify_pool"

\* C16: no worker holds the mutex while it runs a task, and every push, pop
\* and Todo-to-Done assignment is made by the holder of the mutex.
C16_LockNotHeldInTasks ==
    /\ [](\A w \in Workers : InUserCode(w) => mutex # w)
    /\ [][MutationUnderMutex]_vars

\* while worker 1 is inside a task, worker 2 has popped a later task under
\* the mutex
C16_Witness ==
    /\ Len(wpc) = 2
    /\ Borrowing(1)
    /\ mutex = 2
    /\ wpc[2] = "notify_pool"
    /\ task[2] > task[1]

\* ---- C17 -----------------------------------------------------------------
\* a queued task has a worker that is not blocked on workers_condvar, or the
\* producer that appended it is about to call notify_one
NoLostWakeup ==
    (Accepting /\ pending_tasks.tasks # <<>>) =>
        \/ \E w \in Workers : wpc[w] \notin {"waiting", "stopped"}
        \/ mpc = "enq_notify"

Dequeued(t) == \E k \in 1..Len(dequeue_log) : dequeue_log[k] = t

\* C17: no queued task is left with every worker blocked on task-available,
\* and under fair scheduling every queued task is eventually popped.
C17_NoLostWakeups ==
    /\ []NoLostWakeup
    /\ \A t \in Tasks : (InQueue(t) = 1) ~> Dequeued(t)

\* a worker that popped a task and left more in the queue is about to
\* re-signal workers_condvar, on which its sibling is blocked
C17_Witness ==
    /\ Len(wpc) = 2
    /\ Accepting
    /\ pending_tasks.tasks # <<>>
    /\ \E w \in Workers : wpc[w] = "notify_workers" /\ has_more[w]
    /\ workers_condvar # {}

\* ---- C18 -----------------------------------------------------------------
\* the step that assigns Done is taken by join_by_ref, holding the mutex,
\* on an empty queue
FlipOnEmptyQueue ==
    (Accepting /\ ShuttingDown') =>
        /\ pending_tasks.tasks = <<>>
        /\ mutex = Main
        /\ mpc = "join_flip"

\* a worker stops only from its dequeue, holding the mutex, on Done
StopOnShutdown ==
    \A w \in Workers :
        (wpc[w] # "stopped" /\ wpc'[w] = "stopped") =>
            /\ wpc[w] = "dequeue"
            /\ mutex = w
            /\ ShuttingDown
            /\ ShuttingDown'

\* C18: between seeing the queue empty and assigning Done, join_by_ref holds
\* the mutex and the queue stays empty; Done is assigned only then; a worker
\* stops only after seeing Done, so none has stopped while Accepting.
C18_ShutdownOnEmptyQueue ==
    /\ [](mpc = "join_flip" => (mutex = Main /\ Accepting /\ pending_tasks.tasks = <<>>))
    /\ [](\A w \in Workers : wpc[w] = "stopped" => ShuttingDown)
    /\ [][FlipOnEmptyQueue /\ StopOnShutdown]_vars

\* the flip has happened and one worker has stopped while another is still
\* inside the task it had popped before
C18_Witness ==
    /\ ShuttingDown
    /\ \E w \in Workers : wpc[w] = "stopped"
    /\ \E w \in Workers : Borrowing(w)

\* ---- C19 -----------------------------------------------------------------
\* a woken worker's next step takes the mutex and goes back to the dequeue,
\* touching nothing else
WakeRechecks(w) ==
    (wpc[w] = "wake" /\ wpc'[w] # "wake") =>
        /\ wpc'[w] = "dequeue"
        /\ mutex = NoThread
        /\ mutex' = w
        /\ pending_tasks' = pending_tasks
        /\ task' = task
        /\ worker_data' = worker_data

\* a worker that finds Todo with an empty queue goes (back) to waiting and
\* changes neither the queue, the pool state nor any WorkerData or task
EmptyQueueWaits(w) ==
    (wpc[w] = "dequeue" /\ Accepting /\ pending_tasks.tasks = <<>> /\ wpc'[w] # "dequeue") =>
        /\ wpc'[w] = "waiting"
        /\ w \in workers_condvar'
        /\ mutex' = NoThread
        /\ pending_tasks' = pending_tasks
        /\ worker_data' = worker_data
        /\ task' = task
        /\ runs' = runs
        /\ dequeue_log' = dequeue_log

\* a pop takes the head of a non-empty queue
PopsFromNonEmpty ==
    dequeue_log' # dequeue_log =>
        /\ Accepting
        /\ pending_tasks.tasks # <<>>
        /\ dequeue_log' = Append(dequeue_log, Head(pending_tasks.tasks))
        /\ pending_tasks'.tasks = Tail(pending_tasks.tasks)

\* the task a worker runs is one it has popped
RunsWhatItPopped ==
    \A w \in Workers :
        /\ Running(w) => (task[w] \in Tasks /\ Dequeued(task[w]))
        /\ ~Running(w) => task[w] = 0

\* C19: a woken worker re-examines the queue under the mutex; on Todo with an
\* empty queue it waits again and changes nothing; no pop is made from an
\* empty queue and no worker runs a task it did not pop.
C19_WakeRecheck ==
    /\ []RunsWhatItPopped
    /\ [][PopsFromNonEmpty /\ \A w \in Workers : WakeRechecks(w) /\ EmptyQueueWaits(w)]_vars

\* a worker was notified for a task that a sibling has popped meanwhile: it
\* has left the wait with the queue empty and the pool Accepting
C19_Witness ==
    /\ Accepting
    /\ pending_tasks.tasks = <<>>
    /\ spurious = 0
    /\ \E v, w \in Workers : v # w /\ wpc[w] = "wake" /\ Running(v) /\ enqueued = Len(dequeue_log)

\* ---- C20 -----------------------------------------------------------------
\* the step in which a task panics is taken by a thread that does not hold
\* the mutex and leaves the mutex as it is: no guard is dropped by the
\* unwinding, so the Mutex is not poisoned
PanicOutsideMutex ==
    \A w \in Workers :
        (~Dead(w) /\ wpc'[w] = "panicked") => (mutex # w /\ mutex' = mutex)

\* C20: a dead worker never holds the mutex and its panic does not poison it;
\* the queue stays bounded and FIFO; and under fair scheduling, unless every
\* worker has died, each queued task is popped and each enqueue call returns.
C20_FailureDoesNotDisablePool ==
    /\ [](\A w \in Workers : Dead(w) => mutex # w)
    /\ [][PanicOutsideMutex]_vars
    /\ [](C2_QueueBound /\ C3_GlobalFifo)
    /\ \A t \in Tasks : (InQueue(t) = 1) ~> (Dequeued(t) \/ AllWorkersDead)
    /\ \A k \in Tasks :
           (call = "enqueue" /\ enqueue_calls = k) ~> (returned >= k \/ AllWorkersDead)

\* worker 1 died in the first task; the survivor is inside the third task,
\* enqueued and popped after the failure, with capacity 1
C20_Witness ==
    /\ Len(wpc) = 2
    /\ max_pending_tasks = 1
    /\ Dead(1)
    /\ task[1] = 1
    /\ Borrowing(2)
    /\ task[2] = 3
    /\ worker_data[2] = 1
====
